---- MODULE Spec2Model ----
(***************************************************************************)
(* A model of the stand-alone tools of the repository:                     *)
(*   - the imagery fetcher      (gibs_farm_downloader.py)                  *)
(*   - the vector importer      (kml_to_postgis.py)                        *)
(*   - the screenshot tool      (screenshots.py)                           *)
(* Each tool is a sequential program; its position is a pc variable and    *)
(* every blocking call to the outside world (one WMS request, one layer    *)
(* read, one table write) is one action whose outcome the environment      *)
(* chooses.                                                                *)
(*                                                                         *)
(* Abstractions, stated once:                                              *)
(*   - lengths in meters are integers (the call sites pass 100..500);      *)
(*     int(w * (1.0 / r)) and int(w / k) are then w \div r and w \div k    *)
(*   - a date is a day number in a calendar of DaysPerYear-day years; the  *)
(*     clock counts ticks, TicksPerDay to the day; strftime('%Y-%m-%d')    *)
(*     keeps the day and drops the time of day                             *)
(*   - an image is its pixel values; numpy's mean() and std() are the      *)
(*     population mean and standard deviation, compared exactly            *)
(*   - an angle is counted in units of 1/AngleUnit of the angle that is    *)
(*     one meter of meridian; latitudes are those whose cosine is a simple *)
(*     fraction, named by their whole degree; arithmetic on angles is      *)
(*     exact                                                               *)
(*   - writing a file and writing the table succeed                        *)
(*   - a zoom level is counted in hundredths; the square root of an area   *)
(*     is rounded down to a whole meter                                    *)
(*   - a call into the browser driver or the image library either returns  *)
(*     or raises                                                           *)
(***************************************************************************)
EXTENDS Integers, Sequences, FiniteSets, TLC

VARIABLES
    \* ---- imagery fetcher
    pc,                 \* position in download_landsat_farm_image / download_landsat_closeup
    archive,            \* the server: which probes it answers with imagery
    testing,            \* test_all_landsat_layers' loop position in landsat_layers (0: not in it)
    working_layers,     \* its list of (layer_key, date)
    clock,              \* datetime.now(), in ticks
    t0,                 \* the clock when the call started
    layer_key,          \* argument
    lat,                \* argument, in degrees
    lon,                \* argument, in degrees
    width_meters,       \* argument
    height_meters,      \* argument
    force_date,         \* argument: None or Some(day)
    dates_to_try,       \* find_best_landsat_date's candidate list
    idx,                \* position of its loop in dates_to_try (1-based)
    nProbes,            \* probe requests issued so far
    date_str,           \* the date chosen: None or Some(day)
    target_width_px,    \* pixels asked of the full-resolution request
    target_height_px,
    req,                \* parameters of the last WMS request issued
    bbox,               \* its bbox parameter
    resp,               \* the answer to it
    single,             \* what the full-resolution answer was (for the record)
    attempts,           \* download strategies whose request was issued, in order
    fbInTry,            \* the pending fallback call is the one at line 314 (inside try)
    row,                \* download_with_tile_method's loop position
    col,
    successful,         \* its counter
    pasted,             \* offsets of final_image a tile was pasted at
    tileReqs,           \* <<row, col>> of the tile requests issued, in order
    tileBoxes,          \* tile_bbox of each of them
    final_size,         \* size of final_image, <<0, 0>> before it exists
    saved,              \* kinds of image file written
    output,             \* kind of path returned ("" while none)
    exc,                \* last exception raised ("" while none)
    \* ---- vector importer
    ipc,                \* position in the script
    kml,                \* the source file: readable or not, and its layers
    li,                 \* position of the loop in layers (1-based)
    gdfs,               \* the list of tagged, flattened layers
    combined_gdf,       \* their concatenation
    db,                 \* the tables of the database
    db0,                \* the tables before the run
    writes,             \* calls of to_postgis
    msg,                \* the last line printed
    \* ---- screenshot tool
    spc,                \* position in calculate_zoom / capture_earthdata_screenshot
    area_m2,            \* argument of calculate_zoom
    zoom,               \* its result in hundredths: None or Some(z)
    wait_time,          \* argument
    crop,               \* argument
    driver,             \* "None", "running" or "quit"
    quits,              \* calls of driver.quit()
    trace,              \* the steps performed, in order
    shot,               \* the size of the image in output_filename, <<0, 0>> while none
    sexc,               \* the exception in flight or raised ("" while none)
    sout                \* what the call returned ("" while nothing)

fetchVars == <<pc, archive, testing, working_layers, clock, t0, layer_key, lat, lon, width_meters, height_meters,
               force_date, dates_to_try, idx, nProbes, date_str, target_width_px,
               target_height_px, req, bbox, resp, single, attempts, fbInTry, row,
               col, successful, pasted, tileReqs, tileBoxes, final_size, saved,
               output, exc>>

args == <<lat, lon, width_meters, height_meters, force_date, t0, archive>>
testVars == <<testing, working_layers>>
tileVars == <<row, col, successful, pasted, tileReqs, tileBoxes, final_size>>
pxVars == <<target_width_px, target_height_px>>

importVars == <<ipc, kml, li, gdfs, combined_gdf, db, db0, writes, msg>>

shotVars == <<spc, area_m2, zoom, wait_time, crop, driver, quits, trace, shot,
              sexc, sout>>

vars == <<fetchVars, importVars, shotVars>>

----------------------------------------------------------------------------
\* Optional values: Python's None and a present value.
None == <<>>
Some(x) == <<x>>

Min(a, b) == IF a < b THEN a ELSE b
Max(a, b) == IF a > b THEN a ELSE b

----------------------------------------------------------------------------
\* LAYERS: key -> service-side name, native resolution, cadence.
LAYERS ==
    [landsat_weld |->
        [name |-> "Landsat_WELD_CorrectedReflectance_TrueColor_Global_Monthly",
         resolution |-> 30, temporal |-> "monthly"],
     landsat_weld_annual |->
        [name |-> "Landsat_WELD_CorrectedReflectance_TrueColor_Global_Annual",
         resolution |-> 30, temporal |-> "annual"],
     hls_landsat |->
        [name |-> "HLS_False_Color_Landsat",
         resolution |-> 30, temporal |-> "daily"],
     hls_sentinel |->
        [name |-> "HLS_False_Color_Sentinel",
         resolution |-> 30, temporal |-> "daily"],
     hls_s30 |->
        [name |-> "HLS_S30_Nadir_BRDF_Adjusted_Reflectance",
         resolution |-> 30, temporal |-> "daily"],
     hls_l30 |->
        [name |-> "HLS_L30_Nadir_BRDF_Adjusted_Reflectance",
         resolution |-> 30, temporal |-> "daily"],
     viirs_noaa20 |->
        [name |-> "VIIRS_NOAA20_CorrectedReflectance_TrueColor",
         resolution |-> 375, temporal |-> "daily"],
     modis_terra |->
        [name |-> "MODIS_Terra_CorrectedReflectance_TrueColor",
         resolution |-> 250, temporal |-> "daily"]]

LayerKeys == DOMAIN LAYERS

\* self.LAYERS.keys(), in the order of declaration
LayerOrder ==
    <<"landsat_weld", "landsat_weld_annual", "hls_landsat", "hls_sentinel", "hls_s30",
      "hls_l30", "viirs_noaa20", "modis_terra">>

\* 'landsat' in k or 'hls' in k
IsLandsatOrHls(k) ==
    k \in {"landsat_weld", "landsat_weld_annual", "hls_landsat", "hls_sentinel",
           "hls_s30", "hls_l30"}

\* [k for k in self.LAYERS.keys() if 'landsat' in k or 'hls' in k]
landsat_layers == SelectSeq(LayerOrder, IsLandsatOrHls)

\* download_landsat_closeup replaces a key LAYERS does not have.
EffectiveLayer(k) == IF k \in LayerKeys THEN k ELSE "landsat_weld"

----------------------------------------------------------------------------
\* The clock and the dates made from it.
TicksPerDay == 2
DaysPerYear == 365
JuneFirstOffset == 151

\* date.strftime('%Y-%m-%d'): the day of a clock reading.
Today(t) == t \div TicksPerDay
\* t - timedelta(days=n)
MinusDays(t, n) == t - n * TicksPerDay
\* datetime.now().year
YearOf(t) == Today(t) \div DaysPerYear
\* f"{year}-06-01"
JuneFirst(year) == year * DaysPerYear + JuneFirstOffset

MonthlyCount == 6
MonthlyStep == 30
AnnualCount == 3
DailyCount == 17

\* current = datetime.now(), read once; current - timedelta(days=i*30), i in range(6)
MonthlyDates(now) ==
    [i \in 1..MonthlyCount |-> Today(MinusDays(now, (i - 1) * MonthlyStep))]

\* current_year read once; range(current_year, current_year-3, -1)
AnnualDates(now) ==
    [i \in 1..AnnualCount |-> JuneFirst(YearOf(now) - (i - 1))]

\* The list comprehension reads datetime.now() anew for every i in range(0, 17).
\* The clock may tick while the list is built: the readings from position k on
\* (0-based) are one tick later than those before; k = DailyCount is no tick.
\* TickAt are the positions explored: right after the first reading, halfway,
\* and not at all.
TickAt == {1, 9, DailyCount}
DailyReading(now, k, i) == IF i >= k THEN now + 1 ELSE now
DailyDates(now, k) ==
    [i \in 1..DailyCount |-> Today(MinusDays(DailyReading(now, k, i - 1), i - 1))]

----------------------------------------------------------------------------
\* Images and the blankness tests.
PixelValues == {0, 3, 8, 24}
ImgLen == 2

\* mean() and std() do not depend on the order of the pixels: one image per
\* multiset of pixel values.
Images ==
    {p \in [1..ImgLen -> PixelValues] : \A i \in 1..(ImgLen - 1) : p[i] <= p[i + 1]}

RECURSIVE SumTo(_, _)
SumTo(p, n) == IF n = 0 THEN 0 ELSE p[n] + SumTo(p, n - 1)
RECURSIVE SumSqTo(_, _)
SumSqTo(p, n) == IF n = 0 THEN 0 ELSE p[n] * p[n] + SumSqTo(p, n - 1)

\* With n pixels of sum S and sum of squares Q:
\*   mean = S / n                    variance = (n*Q - S*S) / (n*n)
\* so a comparison of mean() or std() with a threshold is one of integers.
MeanGt(p, m) == SumTo(p, Len(p)) > m * Len(p)
MeanLt(p, m) == SumTo(p, Len(p)) < m * Len(p)
VarNum(p) == Len(p) * SumSqTo(p, Len(p)) - SumTo(p, Len(p)) * SumTo(p, Len(p))
StdGt(p, d) == VarNum(p) > d * d * Len(p) * Len(p)
StdLt(p, d) == VarNum(p) < d * d * Len(p) * Len(p)

ProbeMeanMin == 10
ProbeStdMin == 5
BlankMeanMax == 5
BlankStdMax == 2

\* A variant of DownloadBlank that needs both tests to fail.
DownloadBlankBoth(p) == MeanLt(p, BlankMeanMax) /\ StdLt(p, BlankStdMax)

\* A variant of DownloadBlank that applies the probe's thresholds.
DownloadBlankAsProbe(p) ==
    ~(MeanGt(p, ProbeMeanMin) /\ StdGt(p, ProbeStdMin))

\* find_best_landsat_date: pixels.mean() > 10 and pixels.std() > 5
ProbeNotBlank(p) == MeanGt(p, ProbeMeanMin) /\ StdGt(p, ProbeStdMin)

\* download_landsat_closeup: pixels.mean() < 5 or pixels.std() < 2
DownloadBlank(p) == MeanLt(p, BlankMeanMax) \/ StdLt(p, BlankStdMax)

----------------------------------------------------------------------------
\* What session.get can come back with: an exception, or a response with a
\* status code, a content type and a body that PIL can decode (pixels px) or not.
Raise == [kind |-> "raise", status |-> 0, ctype |-> "", decodes |-> FALSE, px |-> <<>>]
Http(s, ct, d, p) == [kind |-> "http", status |-> s, ctype |-> ct, decodes |-> d, px |-> p]

Responses ==
    {Raise}
    \cup {Http(404, ct, FALSE, <<>>) : ct \in {"image/jpeg", "text/xml"}}
    \cup {Http(200, ct, FALSE, <<>>) : ct \in {"image/jpeg", "text/xml"}}
    \cup {Http(200, ct, TRUE, p) : ct \in {"image/jpeg", "text/xml"}, p \in Images}

NoResponse == [kind |-> "none", status |-> 0, ctype |-> "", decodes |-> FALSE, px |-> <<>>]

\* 'image' in response.headers.get('content-type', '')
HasImageType(r) == r.ctype = "image/jpeg"

\* response.status_code == 200 and 'image' in content-type
IsImageResponse(r) == r.kind = "http" /\ r.status = 200 /\ HasImageType(r)

\* A variant of ProbeAccepts that takes any 200 image answer, blank or not.
ProbeAcceptsAnyImage(r) == IsImageResponse(r) /\ r.decodes

\* The server's answer to a probe. An open archive answers anything; otherwise
\* the layers have imagery on the days the archive lists, answered with an image
\* the probe accepts, and a black image on every other day.
OpenArchive == [open |-> TRUE, days |-> [k \in LayerKeys |-> {}]]
Imagery == CHOOSE r \in Responses : IsImageResponse(r) /\ r.decodes /\ ProbeNotBlank(r.px)
NoImagery ==
    CHOOSE r \in Responses :
        IsImageResponse(r) /\ r.decodes /\ \A i \in 1..Len(r.px) : r.px[i] = 0
ProbeAnswers(k, d) ==
    IF archive.open THEN Responses
    ELSE IF d \in archive.days[k] THEN {Imagery}
    ELSE {NoImagery}

\* One probe of find_best_landsat_date: TRUE when it returns the date. An
\* exception of the request or of PILImage.open is caught and the date passed over.
ProbeAccepts(r) == IsImageResponse(r) /\ r.decodes /\ ProbeNotBlank(r.px)

----------------------------------------------------------------------------
\* The database: the table the importer writes and another one beside it.
Table(e, r) == [exists |-> e, rows |-> r]
NoTable == Table(FALSE, <<>>)
NoTables == [farm_boundaries |-> NoTable, other |-> NoTable]

----------------------------------------------------------------------------
\* Sizes of the requests.
OversampleFactor == 4
MaxSidePx == 8192
ProbePx == 256
TileSizeMeters == 150
PixelsPerTile == 1024
FallbackMetersPerPx == 3
FallbackMaxPx == 4096

\* A variant of TargetPx that clamps before it oversamples.
TargetPxClampFirst(side, res) == Min(side \div res, MaxSidePx) * OversampleFactor

\* min(int(side * (1.0 / native_resolution)) * oversample_factor, 8192)
TargetPx(side, res) == Min((side \div res) * OversampleFactor, MaxSidePx)

\* max(1, int(side / tile_size_meters))
TilesFor(side) == Max(1, side \div TileSizeMeters)

\* min(int(side / 3), 4096)
FallbackPx(side) == Min(side \div FallbackMetersPerPx, FallbackMaxPx)

Request(k, l, w, h, t) ==
    [kind |-> k, layers |-> l, width |-> w, height |-> h, time |-> t]
NoRequest == Request("none", "", 0, 0, 0)

\* math.cos(math.radians(lat)) as <<numerator, denominator>>, for the latitudes
\* 0, 36.87, 53.13 and 60 degrees north and south.
Latitudes == {-60, -53, -37, 0, 37, 53, 60}
CosOf(la) ==
    LET a == IF la < 0 THEN -la ELSE la
    IN  IF a = 0 THEN <<1, 1>>
        ELSE IF a = 37 THEN <<4, 5>>
        ELSE IF a = 53 THEN <<3, 5>>
        ELSE <<1, 2>>

\* meters_per_deg_lat = (2 * math.pi * R) / 360, to the meter
MetersPerDegLat == 111195
AngleUnit == 24
UnitsPerDegree == MetersPerDegLat * AngleUnit

\* A variant of calculate_bbox_from_point that takes a degree of longitude to be
\* as long as a degree of latitude.
BboxWithoutCosine(la, lo, w, h) ==
    <<lo * UnitsPerDegree - (w * AngleUnit) \div 2,
      la * UnitsPerDegree - (h * AngleUnit) \div 2,
      lo * UnitsPerDegree + (w * AngleUnit) \div 2,
      la * UnitsPerDegree + (h * AngleUnit) \div 2>>

\* calculate_bbox_from_point: (min_lon, min_lat, max_lon, max_lat). In angle
\* units meters_per_deg_lat is AngleUnit units per meter and meters_per_deg_lon
\* is that times the cosine.
calculate_bbox_from_point(la, lo, w, h) ==
    LET c == CosOf(la)
        half_width_deg == (w * AngleUnit * c[2]) \div (2 * c[1])
        half_height_deg == (h * AngleUnit) \div 2
        x == lo * UnitsPerDegree
        y == la * UnitsPerDegree
    IN  <<x - half_width_deg, y - half_height_deg,
          x + half_width_deg, y + half_height_deg>>
NoBbox == <<0, 0, 0, 0>>

\* The tile_bbox of tile (rw, cl) in a grid of tx by ty tiles over full_bbox.
TileBbox(full, rw, cl, tx, ty) ==
    LET tile_width_deg == (full[3] - full[1]) \div tx
        tile_height_deg == (full[4] - full[2]) \div ty
        tile_min_lon == full[1] + cl * tile_width_deg
        tile_min_lat == full[2] + rw * tile_height_deg
    IN  <<tile_min_lon, tile_min_lat,
          tile_min_lon + tile_width_deg, tile_min_lat + tile_height_deg>>

ProbeSideMeters == 500

----------------------------------------------------------------------------
\* download_landsat_closeup, from the chosen date to the full-resolution
\* request: the pixel sizes, then effective_resolution = width_meters /
\* target_width_px, which raises ZeroDivisionError, outside any try, when the
\* width is less than one native pixel.
PixelStep(lk) ==
    LET res == LAYERS[lk].resolution
        tw == TargetPx(width_meters, res)
        th == TargetPx(height_meters, res)
    IN  /\ target_width_px' = tw
        /\ target_height_px' = th
        /\ IF tw = 0
             THEN pc' = "raised" /\ exc' = "ZeroDivisionError"
             ELSE pc' = "fullreq" /\ exc' = exc

\* The candidate dates for a cadence, the clock being `now` at the first reading.
DatesFor(temporal, now, k) ==
    IF temporal = "monthly" THEN MonthlyDates(now)
    ELSE IF temporal = "annual" THEN AnnualDates(now)
    ELSE DailyDates(now, k)

\* Entry of download_landsat_closeup: the layer key is settled; a forced date is
\* taken as it is, otherwise find_best_landsat_date builds its candidate list.
Start ==
    /\ pc = "start"
    /\ layer_key' = EffectiveLayer(layer_key)
    /\ IF force_date # None
         THEN /\ date_str' = force_date
              /\ PixelStep(layer_key')
              /\ UNCHANGED <<clock, dates_to_try, idx>>
         ELSE /\ \E k \in TickAt :
                    /\ LAYERS[layer_key'].temporal # "daily" => k = DailyCount
                    /\ dates_to_try' = DatesFor(LAYERS[layer_key'].temporal, clock, k)
                    /\ clock' = IF k < DailyCount THEN clock + 1 ELSE clock
              /\ idx' = 1
              /\ pc' = "probe"
              /\ UNCHANGED <<date_str, pxVars, exc>>
    /\ UNCHANGED <<args, nProbes, req, bbox, resp, single, attempts, fbInTry,
                   tileVars, saved, output>>
    /\ UNCHANGED <<testVars, importVars, shotVars>>

\* find_best_landsat_date returns to download_landsat_closeup: with a date the
\* caller goes on to its pixel sizes, with None it returns
\* download_fallback_image(...).
CloseupResumes(found) ==
    /\ dates_to_try' = <<>>
    /\ idx' = 0
    /\ IF found # None
         THEN /\ date_str' = found
              /\ PixelStep(layer_key)
              /\ UNCHANGED fbInTry
         ELSE /\ pc' = "fallback"
              /\ fbInTry' = FALSE
              /\ UNCHANGED <<date_str, pxVars, exc>>
    /\ UNCHANGED <<testVars, layer_key>>

\* find_best_landsat_date returns to test_all_landsat_layers: a date is appended
\* to working_layers with its layer, and the loop goes to the next layer; after
\* the last one the list is returned to download_landsat_farm_image.
TestResumes(found) ==
    /\ dates_to_try' = <<>>
    /\ idx' = 0
    /\ working_layers' =
          IF found # None THEN Append(working_layers, <<layer_key, found[1]>>)
          ELSE working_layers
    /\ testing' = IF testing < Len(landsat_layers) THEN testing + 1 ELSE 0
    /\ pc' = IF testing < Len(landsat_layers) THEN "test" ELSE "choose"
    /\ UNCHANGED <<layer_key, date_str, pxVars, exc, fbInTry>>

\* One iteration of find_best_landsat_date's loop: the 256 x 256 probe of the
\* next candidate date. The first accepted date is returned; after the last
\* rejected date None is returned.
Probe ==
    /\ pc = "probe"
    /\ \E r \in ProbeAnswers(layer_key, dates_to_try[idx]) :
         /\ req' = Request("probe", LAYERS[layer_key].name, ProbePx, ProbePx,
                           dates_to_try[idx])
         /\ bbox' = calculate_bbox_from_point(lat, lon, ProbeSideMeters, ProbeSideMeters)
         /\ resp' = r
         /\ nProbes' = nProbes + 1
         /\ IF ~ProbeAccepts(r) /\ idx < Len(dates_to_try)
              THEN /\ idx' = idx + 1
                   /\ UNCHANGED <<pc, dates_to_try, date_str, pxVars, exc, fbInTry,
                                  testVars, layer_key>>
              ELSE LET found == IF ProbeAccepts(r) THEN Some(dates_to_try[idx]) ELSE None
                   IN  IF testing = 0 THEN CloseupResumes(found) ELSE TestResumes(found)
    /\ UNCHANGED <<args, clock, single, attempts, tileVars, saved, output>>
    /\ UNCHANGED <<importVars, shotVars>>

\* test_all_landsat_layers, at the head of an iteration: find_best_landsat_date
\* builds the candidate list of the next Landsat or HLS layer.
TestLayer ==
    /\ pc = "test"
    /\ layer_key' = landsat_layers[testing]
    /\ \E k \in TickAt :
         /\ LAYERS[layer_key'].temporal # "daily" => k = DailyCount
         /\ dates_to_try' = DatesFor(LAYERS[layer_key'].temporal, clock, k)
         /\ clock' = IF k < DailyCount THEN clock + 1 ELSE clock
    /\ idx' = 1
    /\ pc' = "probe"
    /\ UNCHANGED <<args, testVars, nProbes, date_str, pxVars, req, bbox, resp, single,
                   attempts, fbInTry, tileVars, saved, output, exc>>
    /\ UNCHANGED <<importVars, shotVars>>

\* best_layer, best_date = working[0]
BestOf(working) == working[1]

\* download_landsat_farm_image, after the test: the call of
\* download_landsat_closeup with the first working layer and its date, or with
\* 'viirs_noaa20' and no date.
Choose ==
    /\ pc = "choose"
    /\ IF working_layers # <<>>
         THEN /\ layer_key' = BestOf(working_layers)[1]
              /\ force_date' = Some(BestOf(working_layers)[2])
         ELSE /\ layer_key' = "viirs_noaa20"
              /\ force_date' = None
    /\ pc' = "start"
    /\ UNCHANGED <<lat, lon, width_meters, height_meters, t0, archive, testVars, clock,
                   dates_to_try, idx, nProbes, date_str, pxVars, req, bbox, resp,
                   single, attempts, fbInTry, tileVars, saved, output, exc>>
    /\ UNCHANGED <<importVars, shotVars>>

----------------------------------------------------------------------------
\* A variant of SingleBranch that sends a non-200 or non-image answer to the
\* tiled mosaic.
SingleBranchTilesOnAnyFailure(r) ==
    IF r.kind = "raise" THEN "except"
    ELSE IF IsImageResponse(r)
    THEN IF ~r.decodes THEN "except"
         ELSE IF DownloadBlank(r.px) THEN "tile"
         ELSE "save"
    ELSE "tile"

\* The branch download_landsat_closeup takes on the full-resolution answer:
\*   "save"    the image is written and its path returned
\*   "tile"    return download_with_tile_method(...), inside the try
\*   "else"    return download_fallback_image(...) of the else branch, inside the try
\*   "except"  the request or PILImage.open raised: the except clause
SingleBranch(r) ==
    IF r.kind = "raise" THEN "except"
    ELSE IF IsImageResponse(r)
    THEN IF ~r.decodes THEN "except"
         ELSE IF DownloadBlank(r.px) THEN "tile"
         ELSE "save"
    ELSE "else"

\* What the full-resolution answer was, in the words of the specification.
SingleKind(r) ==
    IF r.kind = "raise" THEN "exception"
    ELSE IF r.status # 200 \/ ~HasImageType(r) THEN "not_image"
    ELSE IF ~r.decodes THEN "undecodable"
    ELSE IF DownloadBlank(r.px) THEN "blank"
    ELSE "valid"

\* The exception a failed request or decode raises.
ErrorOf(r) == IF r.kind = "raise" THEN "RequestException" ELSE "UnidentifiedImageError"

\* The single synchronous request for the full extent.
FullRequest ==
    /\ pc = "fullreq"
    /\ \E r \in Responses :
         /\ req' = Request("single", LAYERS[layer_key].name, target_width_px,
                           target_height_px, date_str[1])
         /\ bbox' = calculate_bbox_from_point(lat, lon, width_meters, height_meters)
         /\ resp' = r
         /\ single' = SingleKind(r)
         /\ attempts' = Append(attempts, "single")
         /\ LET b == SingleBranch(r) IN
              CASE b = "save" ->
                     /\ saved' = saved \cup {"closeup"}
                     /\ output' = "closeup"
                     /\ pc' = "done"
                     /\ UNCHANGED <<fbInTry, tileVars, exc>>
                [] b = "tile" ->
                     /\ pc' = "tile"
                     /\ row' = 0
                     /\ col' = 0
                     /\ successful' = 0
                     /\ pasted' = {}
                     /\ tileReqs' = <<>>
                     /\ tileBoxes' = <<>>
                     /\ final_size' = <<PixelsPerTile * TilesFor(width_meters),
                                        PixelsPerTile * TilesFor(height_meters)>>
                     /\ UNCHANGED <<fbInTry, saved, output, exc>>
                [] b = "else" ->
                     /\ pc' = "fallback"
                     /\ fbInTry' = TRUE
                     /\ UNCHANGED <<tileVars, saved, output, exc>>
                [] OTHER ->
                     /\ pc' = "fallback"
                     /\ fbInTry' = FALSE
                     /\ exc' = ErrorOf(r)
                     /\ UNCHANGED <<tileVars, saved, output>>
    /\ UNCHANGED <<args, clock, layer_key, dates_to_try, idx, nProbes, date_str, pxVars>>
    /\ UNCHANGED <<testVars, importVars, shotVars>>

----------------------------------------------------------------------------
\* download_with_tile_method.

\* response.status_code == 200, and PILImage.open and paste did not raise
TileOk(r) == r.kind = "http" /\ r.status = 200 /\ r.decodes

\* A variant of PastePos that puts row 0 at the top of the canvas.
PastePosTopDown(rw, cl, ty) == <<cl * PixelsPerTile, rw * PixelsPerTile>>

\* (col * pixels_per_tile, (tiles_y - row - 1) * pixels_per_tile)
PastePos(rw, cl, ty) == <<cl * PixelsPerTile, (ty - rw - 1) * PixelsPerTile>>

\* for row in range(tiles_y): for col in range(tiles_x): the loops are over
\* after the tile at (tiles_y - 1, tiles_x - 1)
LoopOver(rw, cl, tx, ty) == rw = ty - 1 /\ cl = tx - 1

\* A variant of MosaicKept that keeps a mosaic of no tile.
MosaicKeptEmpty(n) == n >= 0

\* if successful > 0
MosaicKept(n) == n > 0

\* A variant of AfterTileMethod in which the exception of the tile method
\* leaves download_landsat_closeup.
AfterTileMethodEscapes(n) == IF MosaicKept(n) THEN "done" ELSE "raised"

\* Where download_landsat_closeup stands once the tile method has ended: the
\* method was called inside the try, so its exception lands in the except
\* clause, which calls download_fallback_image.
AfterTileMethod(n) == IF MosaicKept(n) THEN "done" ELSE "fallback"

\* One iteration of the tile loops: the request of tile (row, col). After the
\* last one the mosaic is saved, or the method raises; that exception is raised
\* inside download_landsat_closeup's try and lands in its except clause.
TileRequest ==
    /\ pc = "tile"
    /\ LET tx == TilesFor(width_meters)
           ty == TilesFor(height_meters)
           full_bbox == calculate_bbox_from_point(lat, lon, width_meters, height_meters)
       IN \E r \in Responses :
            /\ req' = Request("tile", LAYERS[layer_key].name, PixelsPerTile,
                              PixelsPerTile, date_str[1])
            /\ bbox' = TileBbox(full_bbox, row, col, tx, ty)
            /\ resp' = r
            /\ tileReqs' = Append(tileReqs, <<row, col>>)
            /\ tileBoxes' = Append(tileBoxes, bbox')
            /\ attempts' = IF tileReqs = <<>> THEN Append(attempts, "tile") ELSE attempts
            /\ pasted' = IF TileOk(r) THEN pasted \cup {PastePos(row, col, ty)} ELSE pasted
            /\ successful' = IF TileOk(r) THEN successful + 1 ELSE successful
            /\ IF ~LoopOver(row, col, tx, ty)
                 THEN /\ col' = IF col + 1 < tx THEN col + 1 ELSE 0
                      /\ row' = IF col + 1 < tx THEN row ELSE row + 1
                      /\ UNCHANGED <<pc, fbInTry, saved, output, exc>>
                 ELSE /\ UNCHANGED <<row, col>>
                      /\ IF MosaicKept(successful')
                           THEN /\ saved' = saved \cup {"tiled"}
                                /\ output' = "tiled"
                                /\ pc' = AfterTileMethod(successful')
                                /\ UNCHANGED <<fbInTry, exc>>
                           ELSE /\ exc' = "Failed to download any tiles"
                                /\ pc' = AfterTileMethod(successful')
                                /\ fbInTry' = FALSE
                                /\ UNCHANGED <<saved, output>>
    /\ UNCHANGED <<args, clock, layer_key, dates_to_try, idx, nProbes, date_str,
                   pxVars, single, final_size>>
    /\ UNCHANGED <<testVars, importVars, shotVars>>

----------------------------------------------------------------------------
\* download_fallback_image: one request of the VIIRS layer for yesterday. It has
\* no try of its own: a failed request or decode, and the explicit
\* "All download methods failed", leave the function as exceptions.
FallbackOk(r) == r.kind = "http" /\ r.status = 200 /\ r.decodes

FallbackError(r) ==
    IF r.kind = "http" /\ r.status # 200 THEN "All download methods failed"
    ELSE ErrorOf(r)

\* A call made from the else branch (inside the try) that raises lands in the
\* except clause, which calls download_fallback_image once more.
Fallback ==
    /\ pc = "fallback"
    /\ \E r \in Responses :
         /\ req' = Request("fallback", LAYERS["viirs_noaa20"].name,
                           FallbackPx(width_meters), FallbackPx(height_meters),
                           Today(MinusDays(clock, 1)))
         /\ bbox' = calculate_bbox_from_point(lat, lon, width_meters, height_meters)
         /\ resp' = r
         /\ attempts' = Append(attempts, "fallback")
         /\ IF FallbackOk(r)
              THEN /\ saved' = saved \cup {"fallback"}
                   /\ output' = "fallback"
                   /\ pc' = "done"
                   /\ UNCHANGED <<fbInTry, exc>>
              ELSE /\ exc' = FallbackError(r)
                   /\ pc' = IF fbInTry THEN "fallback" ELSE "raised"
                   /\ fbInTry' = FALSE
                   /\ UNCHANGED <<saved, output>>
    /\ UNCHANGED <<args, clock, layer_key, dates_to_try, idx, nProbes, date_str,
                   pxVars, single, tileVars>>
    /\ UNCHANGED <<testVars, importVars, shotVars>>

----------------------------------------------------------------------------
\* Nothing of a call has happened yet.
FetchLocalsFresh ==
    /\ dates_to_try = <<>>
    /\ idx = 0
    /\ nProbes = 0
    /\ date_str = None
    /\ target_width_px = 0
    /\ target_height_px = 0
    /\ req = NoRequest
    /\ bbox = NoBbox
    /\ resp = NoResponse
    /\ single = ""
    /\ attempts = <<>>
    /\ fbInTry = FALSE
    /\ row = 0
    /\ col = 0
    /\ successful = 0
    /\ pasted = {}
    /\ tileReqs = <<>>
    /\ tileBoxes = <<>>
    /\ final_size = <<0, 0>>
    /\ saved = {}
    /\ output = ""
    /\ exc = ""

\* download_landsat_closeup is called on its own: the server may answer
\* anything.
CloseupAlone ==
    /\ archive = OpenArchive
    /\ testing = 0
    /\ working_layers = <<>>

\* The importer is not run.
ImportIdle ==
    /\ ipc = "idle"
    /\ kml = [readable |-> FALSE, layers |-> <<>>]
    /\ li = 0
    /\ gdfs = <<>>
    /\ combined_gdf = <<>>
    /\ db = NoTables
    /\ db0 = NoTables
    /\ writes = 0
    /\ msg = ""

\* The screenshot tool is not run.
ShotIdle ==
    /\ spc = "idle"
    /\ area_m2 = 0
    /\ zoom = None
    /\ wait_time = 0
    /\ crop = FALSE
    /\ driver = "None"
    /\ quits = 0
    /\ trace = <<>>
    /\ shot = <<0, 0>>
    /\ sexc = ""
    /\ sout = ""

\* The calls explored: a layer key of every cadence and resolution (the four HLS
\* layers differ in nothing but the name sent) and one that LAYERS lacks, areas
\* of a few tiles (one narrower than a native pixel), a forced date or none,
\* started on the last tick of a day.
FetchKeys == {"landsat_weld", "landsat_weld_annual", "hls_landsat", "viirs_noaa20",
              "modis_terra", "sentinel2"}
Areas == {<<20, 20>>, <<160, 300>>, <<400, 100>>}
StartClocks == {(3 * DaysPerYear + 200) * TicksPerDay + (TicksPerDay - 1)}
ForceDates(now) == {None, Some(Today(now) - 40)}
FarmLat == 37
FarmLon == -99

InitFetch ==
    /\ pc = "start"
    /\ clock \in StartClocks
    /\ t0 = clock
    /\ CloseupAlone
    /\ layer_key \in FetchKeys
    /\ lat = FarmLat
    /\ lon = FarmLon
    /\ \E a \in Areas : width_meters = a[1] /\ height_meters = a[2]
    /\ force_date \in ForceDates(clock)
    /\ FetchLocalsFresh
    /\ ImportIdle
    /\ ShotIdle

NextFetch == Start \/ Probe \/ FullRequest \/ TileRequest \/ Fallback

SpecFetch == InitFetch /\ [][NextFetch]_vars

\* The run up to the answer to the full-resolution request, for areas large
\* enough to reach the 8192-pixel limit, with a forced date. (A tile grid of
\* such an area has hundreds of tiles: the tile loop is left to SpecFetch.)
PxSides == {29, 30, 300, 61440, 61470}
PxKeys == LayerKeys \cup {"sentinel2"}

InitPx ==
    /\ pc = "start"
    /\ clock \in StartClocks
    /\ t0 = clock
    /\ CloseupAlone
    /\ layer_key \in PxKeys
    /\ lat = FarmLat
    /\ lon = FarmLon
    /\ width_meters \in PxSides
    /\ height_meters \in PxSides
    /\ force_date = Some(Today(clock) - 40)
    /\ FetchLocalsFresh
    /\ ImportIdle
    /\ ShotIdle

NextPx == Start \/ FullRequest

SpecPx == InitPx /\ [][NextPx]_vars

\* download_landsat_farm_image, for square areas on both sides of the VIIRS
\* resolution and servers that hold imagery of some layers, each on the day of
\* the layer's second candidate date.
FarmSizes == {160, 300, 400}
Holdings ==
    {{}, {"landsat_weld"}, {"hls_landsat"}, {"hls_l30"},
     {"landsat_weld_annual", "hls_s30"}, {"hls_sentinel", "hls_l30"}}
ArchiveOf(held, now) ==
    [open |-> FALSE,
     days |-> [k \in LayerKeys |->
                 IF k \in held
                   THEN {DatesFor(LAYERS[k].temporal, now, DailyCount)[2]}
                   ELSE {}]]

InitFarm ==
    /\ pc = "test"
    /\ clock \in StartClocks
    /\ t0 = clock
    /\ \E h \in Holdings, v \in SUBSET {"viirs_noaa20"} : archive = ArchiveOf(h \cup v, clock)
    /\ testing = 1
    /\ working_layers = <<>>
    /\ layer_key = ""
    /\ lat = FarmLat
    /\ lon = FarmLon
    /\ \E a \in FarmSizes : width_meters = a /\ height_meters = a
    /\ force_date = None
    /\ FetchLocalsFresh
    /\ ImportIdle
    /\ ShotIdle

NextFarm ==
    \/ TestLayer \/ Probe \/ Choose \/ Start \/ FullRequest \/ TileRequest
    \/ Fallback

SpecFarm == InitFarm /\ [][NextFarm]_vars

\* The run through the tiled mosaic, for centers at several latitudes and
\* longitudes and grids of several rows and columns, with a forced date.
Centers == {<<la, lo>> : la \in Latitudes, lo \in {-99, 120}}
GridAreas == {<<160, 300>>, <<300, 300>>, <<450, 300>>}

InitTiles ==
    /\ pc = "start"
    /\ clock \in StartClocks
    /\ t0 = clock
    /\ CloseupAlone
    /\ layer_key = "landsat_weld"
    /\ \E c \in Centers : lat = c[1] /\ lon = c[2]
    /\ \E a \in GridAreas : width_meters = a[1] /\ height_meters = a[2]
    /\ force_date = Some(Today(clock) - 40)
    /\ FetchLocalsFresh
    /\ ImportIdle
    /\ ShotIdle

NextTiles == Start \/ FullRequest \/ TileRequest

SpecTiles == InitTiles /\ [][NextTiles]_vars

----------------------------------------------------------------------------
\* The vector importer (kml_to_postgis.py).
\*
\* A geometry is the sequence of its coordinates, all <<x, y>> or all
\* <<x, y, z>>; a feature is its attribute Name and its geometry; a layer either
\* cannot be read or is the sequence of its features. The names fiona lists are
\* distinct.
MaxLayers == 3

LayerNames == [i \in 1..(MaxLayers + 1) |-> <<"fields", i>>]

Geom2D == <<(<<1, 2>>), (<<3, 4>>)>>
Geom3D == <<(<<5, 6, 7>>), (<<8, 9, 7>>)>>
FeatureA == [Name |-> "a", geometry |-> Geom3D]
FeatureB == [Name |-> "b", geometry |-> Geom2D]

RowLists == {<<>>, <<FeatureA>>, <<FeatureB>>, <<FeatureA, FeatureB>>, <<FeatureB, FeatureA>>}
LayerContents ==
    {[fails |-> TRUE, rows |-> <<>>]} \cup {[fails |-> FALSE, rows |-> r] : r \in RowLists}
Files ==
    {[readable |-> FALSE, layers |-> <<>>]}
    \cup {[readable |-> TRUE, layers |-> l] :
             l \in UNION {[1..n -> LayerContents] : n \in 0..MaxLayers}}

\* A variant of Force2D that leaves the coordinates as they are.
Force2DKeepsZ(geom) == geom

\* transform(lambda x, y, z=None: (x, y), geom)
Force2D(geom) == [k \in DOMAIN geom |-> <<geom[k][1], geom[k][2]>>]

\* gdf['layer_name'] = layer, then gdf['geometry'] = gdf['geometry'].apply(...)
TagAndFlatten(rows, layer) ==
    [j \in DOMAIN rows |->
        [layer_name |-> layer, Name |-> rows[j].Name,
         geometry |-> Force2D(rows[j].geometry)]]

\* A variant of KeepLayer that keeps a layer of no feature.
KeepLayerAlways(rows) == Len(rows) >= 0

\* if len(gdf) > 0
KeepLayer(rows) == Len(rows) > 0

RECURSIVE ConcatReversed(_)
\* A variant of Concat that puts the later layers first.
ConcatReversed(frames) ==
    IF frames = <<>> THEN <<>> ELSE ConcatReversed(Tail(frames)) \o Head(frames)

RECURSIVE ConcatFrom(_)
ConcatFrom(frames) ==
    IF frames = <<>> THEN <<>> ELSE Head(frames) \o ConcatFrom(Tail(frames))

\* pd.concat(gdfs, ignore_index=True)
Concat(frames) == ConcatFrom(frames)

\* layers = fiona.listlayers(path), outside any try: a file that cannot be
\* opened ends the script with the exception.
ListLayers ==
    /\ ipc = "list"
    /\ IF kml.readable
         THEN ipc' = "loop" /\ li' = 1 /\ msg' = "Available layers"
         ELSE ipc' = "raised" /\ li' = li /\ msg' = "Traceback"
    /\ UNCHANGED <<kml, gdfs, combined_gdf, db, db0, writes>>
    /\ UNCHANGED <<fetchVars, shotVars>>

\* One iteration of the loop over the layers. The try covers the read, the tag,
\* the flattening and the append: an exception of any of them leaves gdfs as it
\* was and the loop goes on.
ReadLayer ==
    /\ ipc = "loop"
    /\ li <= Len(kml.layers)
    /\ LET layer == kml.layers[li] IN
         IF layer.fails
           THEN gdfs' = gdfs /\ msg' = "Error reading layer"
           ELSE IF KeepLayer(layer.rows)
           THEN /\ gdfs' = Append(gdfs, TagAndFlatten(layer.rows, LayerNames[li]))
                /\ msg' = "Read layer"
           ELSE gdfs' = gdfs /\ msg' = "Skipped layer"
    /\ li' = li + 1
    /\ UNCHANGED <<ipc, kml, combined_gdf, db, db0, writes>>
    /\ UNCHANGED <<fetchVars, shotVars>>

\* After the loop: if gdfs: concatenate and to_postgis('farm_boundaries',
\* if_exists='replace'); else: print that no valid layer was found. The script
\* ends normally either way.
Finish ==
    /\ ipc = "loop"
    /\ li > Len(kml.layers)
    /\ IF gdfs # <<>>
         THEN /\ combined_gdf' = Concat(gdfs)
              /\ db' = [db EXCEPT !.farm_boundaries = Table(TRUE, combined_gdf')]
              /\ writes' = writes + 1
              /\ msg' = "Successfully imported all valid layers to PostGIS!"
         ELSE /\ msg' = "No valid layers found to import"
              /\ UNCHANGED <<combined_gdf, db, writes>>
    /\ ipc' = "done"
    /\ UNCHANGED <<kml, li, gdfs, db0>>
    /\ UNCHANGED <<fetchVars, shotVars>>

\* The fetcher is not run.
FetchIdle ==
    /\ pc = "idle"
    /\ clock = 0
    /\ t0 = 0
    /\ layer_key = ""
    /\ lat = 0
    /\ lon = 0
    /\ width_meters = 0
    /\ height_meters = 0
    /\ force_date = None
    /\ CloseupAlone
    /\ FetchLocalsFresh

\* The database before the run: empty, or holding an earlier import and another
\* table.
OldRows == <<[layer_name |-> <<"fields", 0>>, Name |-> "old", geometry |-> Geom2D]>>
Databases ==
    {NoTables, [farm_boundaries |-> Table(TRUE, OldRows), other |-> Table(TRUE, OldRows)]}

InitImport ==
    /\ FetchIdle
    /\ ShotIdle
    /\ ipc = "list"
    /\ kml \in Files
    /\ li = 0
    /\ gdfs = <<>>
    /\ combined_gdf = <<>>
    /\ db \in Databases
    /\ db0 = db
    /\ writes = 0
    /\ msg = ""

NextImport == ListLayers \/ ReadLayer \/ Finish

SpecImport == InitImport /\ [][NextImport]_vars

----------------------------------------------------------------------------
\* Properties of the imagery fetcher.

IsPrefix(s, t) == Len(s) <= Len(t) /\ \A i \in 1..Len(s) : s[i] = t[i]
Contains(s, x) == \E i \in 1..Len(s) : s[i] = x
Last(s) == s[Len(s)]

\* C1, as stated: every failure of the full-resolution request (blank image,
\* exception, non-200 or non-image answer) goes to the tiled mosaic first and to
\* the fallback layer only after it, and after such a failure an error reaches
\* the caller only when the mosaic and the fallback layer were both tried.
C1_TileBeforeFallbackAlways ==
    /\ (single \in {"blank", "exception", "undecodable", "not_image"} /\ Len(attempts) >= 2)
          => attempts[2] = "tile"
    /\ (pc = "raised" /\ Contains(attempts, "single"))
          => Contains(attempts, "tile") /\ Contains(attempts, "fallback")

\* C1, amended: only a blank full-resolution image goes to the tiled mosaic, and
\* to the fallback layer when the mosaic raises; an exception, an undecodable
\* body and a non-200 or non-image answer go straight to the fallback layer (the
\* last of these requests it a second time when the first call fails); a valid
\* image ends the call. Once a request of a download strategy has been issued,
\* an error reaches the caller only after the fallback layer was requested and
\* failed.
C1_EscalationChain ==
    /\ single = "" => attempts \in {<<>>, <<"fallback">>}
    /\ single = "valid" => attempts = <<"single">> /\ pc = "done"
    /\ single = "blank" => IsPrefix(attempts, <<"single", "tile", "fallback">>)
    /\ single \in {"exception", "undecodable"}
          => IsPrefix(attempts, <<"single", "fallback">>)
    /\ single = "not_image"
          => IsPrefix(attempts, <<"single", "fallback", "fallback">>)
    /\ (single = "blank" /\ Contains(attempts, "fallback")) => successful = 0
    /\ (pc = "raised" /\ attempts # <<>>)
          => /\ Last(attempts) = "fallback"
             /\ req.kind = "fallback"
             /\ ~(resp.kind = "http" /\ resp.status = 200 /\ resp.decodes)
             /\ single = "not_image" => Len(attempts) = 3

\* The whole chain was gone through: blank image, no tile, fallback failed.
C1_ChainExhausted ==
    pc = "raised" /\ attempts = <<"single", "tile", "fallback">>

\* C2: the candidate dates are probed newest first; the first date whose probe
\* is a 200 image answer that passes the blankness test is returned and no
\* probe is issued after it; a probe that raises, or whose body does not decode,
\* only passes its date over; when every candidate is rejected no date is
\* returned and download_landsat_closeup requests the fallback layer.
GoodProbe(r) ==
    /\ r.kind = "http" /\ r.status = 200 /\ r.ctype = "image/jpeg" /\ r.decodes
    /\ MeanGt(r.px, 10) /\ StdGt(r.px, 5)

C2_ProbeStep ==
    /\ \A i \in 1..(Len(dates_to_try) - 1) : dates_to_try[i] >= dates_to_try[i + 1]
    /\ nProbes = idx - 1
    /\ req'.kind = "probe" /\ req'.time = dates_to_try[idx]
    /\ nProbes' = idx
    /\ GoodProbe(resp')
          => date_str' = Some(dates_to_try[idx]) /\ pc' \in {"fullreq", "raised"}
    /\ (~GoodProbe(resp') /\ idx < Len(dates_to_try))
          => pc' = "probe" /\ idx' = idx + 1 /\ date_str' = None
    /\ (~GoodProbe(resp') /\ idx = Len(dates_to_try))
          => pc' = "fallback" /\ date_str' = None /\ attempts' = <<>>

C2_FirstGoodDate ==
    [][/\ pc = "probe" => C2_ProbeStep
       /\ pc \notin {"start", "probe"} => nProbes' = nProbes /\ date_str' = date_str
       /\ (pc = "fallback" /\ attempts = <<>>) => req'.kind = "fallback"]_vars

\* A date was returned after an earlier candidate's probe had raised or been
\* rejected.
C2_LaterDateFound ==
    pc = "fullreq" /\ force_date = None /\ nProbes >= 2 /\ date_str # None

\* C3, as stated: the candidate list is, for a monthly layer, 6 dates from
\* today each 30 days before the one before; for an annual layer, June 1 of
\* this year and of the two years before; for a daily layer, 17 consecutive
\* dates from today back.
C3_CandidateDates ==
    pc = "probe" =>
        LET temporal == LAYERS[layer_key].temporal
            today == Today(t0)
            d == dates_to_try
        IN  /\ temporal = "monthly" =>
                  /\ Len(d) = 6 /\ d[1] = today
                  /\ \A i \in 1..5 : d[i + 1] = d[i] - 30
            /\ temporal = "annual" =>
                  /\ Len(d) = 3
                  /\ \A i \in 1..3 : d[i] = JuneFirst(YearOf(t0) - (i - 1))
            /\ temporal = "daily" =>
                  /\ Len(d) = 17 /\ d[1] = today
                  /\ \A i \in 1..16 : d[i + 1] = d[i] - 1

\* An image all of whose pixels have one value.
Uniform(p) == \A i, j \in 1..Len(p) : p[i] = p[j]
Decoded(r) == r.kind = "http" /\ r.status = 200 /\ r.ctype = "image/jpeg" /\ r.decodes

\* C4: an image of mean > 10 and standard deviation > 5 is accepted, and a
\* uniform image is rejected whatever its brightness, by the probe check (the
\* date is returned, or passed over) and by the check after the download (the
\* image is saved, or the tiled mosaic is tried).
C4_BlanknessHeuristic ==
    /\ (req.kind = "probe" /\ Decoded(resp)) =>
          /\ (MeanGt(resp.px, 10) /\ StdGt(resp.px, 5))
                => date_str = Some(req.time) /\ pc \in {"fullreq", "raised"}
          /\ Uniform(resp.px) => date_str = None /\ pc \in {"probe", "fallback"}
    /\ (req.kind = "single" /\ Decoded(resp)) =>
          /\ (MeanGt(resp.px, 10) /\ StdGt(resp.px, 5))
                => pc = "done" /\ output = "closeup" /\ saved = {"closeup"}
          /\ Uniform(resp.px) => pc = "tile" /\ saved = {}

\* A bright uniform full-resolution image was judged blank.
C4_BrightUniformRejected ==
    /\ req.kind = "single" /\ Decoded(resp) /\ pc = "tile"
    /\ Uniform(resp.px) /\ MeanGt(resp.px, 10)

\* C5, as stated: the full-resolution image is taken as valid exactly when a
\* probe of that mean and standard deviation would be accepted.
C5_SameThresholds ==
    (req.kind = "single" /\ Decoded(resp)) =>
        (pc = "done" <=> ProbeAccepts(resp))

\* C5, amended: the check after the download is looser than the probe's: the
\* image is valid exactly when its mean is >= 5 and its standard deviation is
\* >= 2, so that whatever a probe accepts (mean > 10, deviation > 5) is valid,
\* and not the other way round.
C5_LooserThresholds ==
    (req.kind = "single" /\ Decoded(resp)) =>
        /\ pc = "done" <=> (~MeanLt(resp.px, 5) /\ ~StdLt(resp.px, 2))
        /\ (MeanGt(resp.px, 10) /\ StdGt(resp.px, 5)) => pc = "done"

\* A full-resolution image was saved that a probe would have rejected.
C5_ValidButNoProbe ==
    req.kind = "single" /\ Decoded(resp) /\ pc = "done" /\ ~ProbeAccepts(resp)

\* C6: the full-resolution request asks, for each side, for
\* min(4 * floor(side_meters / native_resolution), 8192) pixels, never more
\* than 8192.
C6_RequestedPixels ==
    req.kind = "single" =>
        LET res == LAYERS[layer_key].resolution IN
            /\ req.width = Min(4 * (width_meters \div res), 8192)
            /\ req.height = Min(4 * (height_meters \div res), 8192)
            /\ req.width <= 8192 /\ req.height <= 8192

\* A request whose width was cut to 8192 and whose height was not.
C6_WidthClamped ==
    /\ req.kind = "single" /\ req.width = 8192 /\ req.height \in 1..8191
    /\ 4 * (width_meters \div LAYERS[layer_key].resolution) > 8192

\* C7: the canvas is 1024 * tiles_x by 1024 * tiles_y with tiles = max(1,
\* floor(side / 150)); the tiles are requested one after the other whatever the
\* earlier ones gave, a tile that fails is left blank, and the mosaic is saved
\* and returned exactly when at least one tile succeeded: with none the method
\* raises and saves nothing.
C7_TiledMosaic ==
    LET tx == Max(1, width_meters \div 150)
        ty == Max(1, height_meters \div 150)
    IN  /\ (pc = "tile" \/ tileReqs # <<>>) => final_size = <<1024 * tx, 1024 * ty>>
        /\ pc = "tile" =>
              /\ row \in 0..(ty - 1) /\ col \in 0..(tx - 1)
              /\ Len(tileReqs) = row * tx + col
              /\ "tiled" \notin saved
        /\ Cardinality(pasted) = successful
        /\ successful <= Len(tileReqs)
        /\ (tileReqs # <<>> /\ pc # "tile") =>
              /\ Len(tileReqs) = tx * ty
              /\ {tileReqs[i] : i \in 1..Len(tileReqs)} = (0..(ty - 1)) \X (0..(tx - 1))
              /\ "tiled" \in saved <=> successful > 0
              /\ output = "tiled" <=> successful > 0
              /\ (req.kind = "tile" /\ successful = 0)
                    => pc = "fallback" /\ exc = "Failed to download any tiles"
              /\ (req.kind = "tile" /\ successful > 0) => pc = "done"

\* A mosaic was saved with one tile pasted and another left blank.
C7_MosaicWithBlankTile ==
    pc = "done" /\ output = "tiled" /\ successful >= 1 /\ successful < Len(tileReqs)

----------------------------------------------------------------------------
\* Properties of the vector importer.

YieldsFeatures(layer) == ~layer.fails /\ layer.rows # <<>>

\* The rows the layers 1..n of the file should contribute, in order.
RECURSIVE RowsUpTo(_)
RowsUpTo(n) ==
    IF n = 0 THEN <<>>
    ELSE LET layer == kml.layers[n] IN
         RowsUpTo(n - 1) \o
         (IF YieldsFeatures(layer)
            THEN [j \in 1..Len(layer.rows) |->
                    [layer_name |-> LayerNames[n], Name |-> layer.rows[j].Name,
                     geometry |-> [k \in 1..Len(layer.rows[j].geometry) |->
                                      <<layer.rows[j].geometry[k][1],
                                        layer.rows[j].geometry[k][2]>>]]]
            ELSE <<>>)

\* C8: an empty layer and a layer whose read raises are skipped and the run
\* goes on with the next layer; the combined table is the rows of the layers
\* that were read and have features, in the order of the layers and of their
\* rows, each tagged with the name of its layer.
C8_CombinedTable ==
    /\ ipc = "raised" => ~kml.readable
    /\ ipc = "loop" => li \in 1..(Len(kml.layers) + 1) /\ ConcatFrom(gdfs) = RowsUpTo(li - 1)
    /\ ipc = "done" =>
          /\ li = Len(kml.layers) + 1
          /\ combined_gdf = RowsUpTo(Len(kml.layers))
          /\ combined_gdf # <<>> => db.farm_boundaries = Table(TRUE, combined_gdf)

\* A run with a layer that raised, an empty layer and, after both, a layer of
\* two features, which are the table.
C8_SkippedThenRead ==
    /\ ipc = "done" /\ Len(kml.layers) = 3
    /\ kml.layers[1].fails
    /\ ~kml.layers[2].fails /\ kml.layers[2].rows = <<>>
    /\ Len(kml.layers[3].rows) = 2
    /\ Len(db.farm_boundaries.rows) = 2
    /\ db.farm_boundaries.rows[1].layer_name = LayerNames[3]

\* The layer of the file a tagged row came from.
LayerOf(r) == CHOOSE i \in 1..Len(kml.layers) : LayerNames[i] = r.layer_name

\* C9: every geometry of every imported layer, and so of the table written, is
\* 2D: a coordinate <<x, y, z>> of the source has become <<x, y>>, a coordinate
\* <<x, y>> is as it was, and flattening a flattened geometry changes nothing.
C9_Geometries2D ==
    /\ \A f \in 1..Len(gdfs) : \A j \in 1..Len(gdfs[f]) :
          LET r == gdfs[f][j]
              src == kml.layers[LayerOf(r)].rows[j].geometry
          IN  /\ Len(r.geometry) = Len(src)
              /\ \A k \in 1..Len(src) :
                    /\ Len(r.geometry[k]) = 2
                    /\ r.geometry[k][1] = src[k][1]
                    /\ r.geometry[k][2] = src[k][2]
                    /\ Len(src[k]) = 2 => r.geometry[k] = src[k]
              /\ Force2D(r.geometry) = r.geometry
    /\ writes > 0 =>
          \A j \in 1..Len(db.farm_boundaries.rows) :
              \A k \in 1..Len(db.farm_boundaries.rows[j].geometry) :
                  Len(db.farm_boundaries.rows[j].geometry[k]) = 2

\* A table was written from a layer holding a 3D and a 2D geometry.
C9_FlattenedWritten ==
    /\ ipc = "done" /\ writes = 1
    /\ \E i \in 1..Len(kml.layers) :
          /\ YieldsFeatures(kml.layers[i])
          /\ \E j \in 1..Len(kml.layers[i].rows) : Len(kml.layers[i].rows[j].geometry[1]) = 3
          /\ \E j \in 1..Len(kml.layers[i].rows) : Len(kml.layers[i].rows[j].geometry[1]) = 2

Ended == ipc \in {"done", "raised"}
SomeLayerYields == \E i \in 1..Len(kml.layers) : YieldsFeatures(kml.layers[i])

\* C10, as stated: with a layer that yields features the table is written once,
\* replacing the prior one; with none the run ends in a fatal error and the
\* database is not written.
C10_FatalWithoutFeatures ==
    Ended =>
        /\ SomeLayerYields =>
              writes = 1 /\ db.farm_boundaries = Table(TRUE, combined_gdf)
        /\ ~SomeLayerYields => ipc = "raised" /\ writes = 0 /\ db = db0

\* C10, amended: with a layer that yields features the table farm_boundaries is
\* written once, replacing the prior one and no other table; with none the
\* script prints that no valid layer was found and ends normally, raising
\* nothing and writing nothing. Only a file whose layers cannot be listed ends
\* the script with an exception, and nothing is written then either.
C10_WriteOnceOrMessage ==
    /\ writes <= 1
    /\ ~Ended => writes = 0 /\ db = db0
    /\ ipc = "raised" => ~kml.readable /\ writes = 0 /\ db = db0
    /\ ipc = "done" =>
          /\ kml.readable
          /\ SomeLayerYields =>
                /\ writes = 1
                /\ combined_gdf # <<>>
                /\ db = [db0 EXCEPT !.farm_boundaries = Table(TRUE, combined_gdf)]
          /\ ~SomeLayerYields =>
                /\ writes = 0
                /\ db = db0
                /\ msg = "No valid layers found to import"

\* A run over layers none of which yields a feature ended normally and left the
\* earlier table in place.
C10_EndedNormallyUnwritten ==
    /\ ipc = "done" /\ Len(kml.layers) >= 2 /\ ~SomeLayerYields
    /\ db0.farm_boundaries.exists /\ db = db0

----------------------------------------------------------------------------
\* The screenshot tool: calculate_zoom, then capture_earthdata_screenshot.

\* area_m2 ** 0.5, rounded down to a whole meter: the r with r * r <= a < (r + 1) * (r + 1),
\* found by bisection of lo..hi (m * m <= a is written m <= a \div m).
RECURSIVE RootIn(_, _, _)
RootIn(a, lo, hi) ==
    IF hi - lo <= 1
      THEN lo
      ELSE LET m == (lo + hi) \div 2
           IN  IF m <= a \div m THEN RootIn(a, m, hi) ELSE RootIn(a, lo, m)
Root(a) == RootIn(a, 0, a + 1)

ZoomUnit == 100
ZoomBase == 19
ZoomMin == 15
ZoomMax == 20
ZoomOffset == 1

\* max(15, min(20, z)) + 1, in hundredths
ClampNoFloor(z) == Min(ZoomMax * ZoomUnit, z) + ZoomOffset * ZoomUnit
Clamp(z) == Max(ZoomMin * ZoomUnit, Min(ZoomMax * ZoomUnit, z)) + ZoomOffset * ZoomUnit

\* zoom = 19 - (area_m2 ** 0.5 / 100), in hundredths
RawZoom(a) == ZoomBase * ZoomUnit - Root(a)

\* calculate_zoom(area_m2): the guard, then the clamped zoom.
CalculateZoom ==
    /\ spc = "zoom"
    /\ IF area_m2 <= 0
         THEN /\ sexc' = "ValueError"
              /\ spc' = "raised"
              /\ zoom' = zoom
         ELSE /\ zoom' = Some(Clamp(RawZoom(area_m2)))
              /\ spc' = "chrome"
              /\ sexc' = sexc
    /\ UNCHANGED <<area_m2, wait_time, crop, driver, quits, trace, shot, sout>>
    /\ UNCHANGED <<fetchVars, importVars>>

RaisesPastFinally(e) ==
    /\ sexc' = e
    /\ spc' = "raised"
    /\ UNCHANGED <<trace, shot>>

\* An exception inside the try block: the except clause prints and re-raises,
\* which leaves the finally clause to run.
Raises(e) ==
    /\ sexc' = e
    /\ spc' = "finally"
    /\ UNCHANGED <<trace, shot>>

\* A step of the try block that returns.
Returns(ev, next) ==
    /\ trace' = Append(trace, ev)
    /\ spc' = next
    /\ sexc' = sexc

\* driver = webdriver.Chrome(options=chrome_options). When it raises, driver is
\* still None and the finally clause has nothing to quit.
StartChrome ==
    /\ spc = "chrome"
    /\ \/ /\ driver' = "running"
          /\ spc' = "get"
          /\ sexc' = sexc
       \/ /\ driver' = driver
          /\ spc' = "raised"
          /\ sexc' = "WebDriverException"
    /\ UNCHANGED <<area_m2, zoom, wait_time, crop, quits, trace, shot, sout>>
    /\ UNCHANGED <<fetchVars, importVars>>

\* driver.get(url)
Navigate ==
    /\ spc = "get"
    /\ \/ Returns(<<"get", 0>>, "sleep_load") /\ shot' = shot
       \/ Raises("WebDriverException")
    /\ UNCHANGED <<area_m2, zoom, wait_time, crop, driver, quits, sout>>
    /\ UNCHANGED <<fetchVars, importVars>>

\* time.sleep(wait_time)
WaitLoad ==
    /\ spc = "sleep_load"
    /\ Returns(<<"sleep", wait_time>>, "escape")
    /\ UNCHANGED <<area_m2, zoom, wait_time, crop, driver, quits, shot, sout>>
    /\ UNCHANGED <<fetchVars, importVars>>

EscapePause == 1
BracketPause == 2

\* ActionChains(driver).send_keys(Keys.ESCAPE).perform()
SendEscape ==
    /\ spc = "escape"
    /\ \/ Returns(<<"ESCAPE", 0>>, "sleep_escape") /\ shot' = shot
       \/ Raises("WebDriverException")
    /\ UNCHANGED <<area_m2, zoom, wait_time, crop, driver, quits, sout>>
    /\ UNCHANGED <<fetchVars, importVars>>

\* time.sleep(1)
PauseAfterEscape ==
    /\ spc = "sleep_escape"
    /\ Returns(<<"sleep", EscapePause>>, "bracket")
    /\ UNCHANGED <<area_m2, zoom, wait_time, crop, driver, quits, shot, sout>>
    /\ UNCHANGED <<fetchVars, importVars>>

\* ActionChains(driver).send_keys(']').perform()
SendBracket ==
    /\ spc = "bracket"
    /\ \/ Returns(<<"]", 0>>, "sleep_bracket") /\ shot' = shot
       \/ Raises("WebDriverException")
    /\ UNCHANGED <<area_m2, zoom, wait_time, crop, driver, quits, sout>>
    /\ UNCHANGED <<fetchVars, importVars>>

\* time.sleep(2)
PauseAfterBracket ==
    /\ spc = "sleep_bracket"
    /\ Returns(<<"sleep", BracketPause>>, "screenshot")
    /\ UNCHANGED <<area_m2, zoom, wait_time, crop, driver, quits, shot, sout>>
    /\ UNCHANGED <<fetchVars, importVars>>

AfterScreenshotAlwaysCrop(c) == "crop"

\* if crop: crop_to_map(output_filename)
AfterScreenshot(c) == IF c THEN "crop" ELSE "finally"

WindowWidth == 1920
WindowHeight == 1080

\* driver.save_screenshot(output_filename); without crop, the return statement
\* follows at once.
SaveScreenshot ==
    /\ spc = "screenshot"
    /\ \/ /\ Returns(<<"screenshot", 0>>, AfterScreenshot(crop))
          /\ shot' = <<WindowWidth, WindowHeight>>
          /\ sout' = IF crop THEN sout ELSE "output_filename"
       \/ /\ Raises("WebDriverException")
          /\ sout' = sout
    /\ UNCHANGED <<area_m2, zoom, wait_time, crop, driver, quits>>
    /\ UNCHANGED <<fetchVars, importVars>>

CropLeft == 480
CropTop == 120
CropBottomMargin == 100

\* img.crop((left, top, right, bottom)) of crop_to_map: the size of the result.
CropSize(size) == <<size[1] - CropLeft, (size[2] - CropBottomMargin) - CropTop>>

\* crop_to_map(output_filename), which overwrites the file; then the return
\* statement.
Crop ==
    /\ spc = "crop"
    /\ \/ /\ Returns(<<"crop", 0>>, "finally")
          /\ shot' = CropSize(shot)
          /\ sout' = "output_filename"
       \/ /\ Raises("OSError")
          /\ sout' = sout
    /\ UNCHANGED <<area_m2, zoom, wait_time, crop, driver, quits>>
    /\ UNCHANGED <<fetchVars, importVars>>

\* The finally clause: if driver: driver.quit(). Then the function returns the
\* value of its return statement or lets the exception in flight go on; an
\* exception of quit() itself replaces either.
Quit ==
    /\ spc = "finally"
    /\ driver = "running"
    /\ quits' = quits + 1
    /\ driver' = "quit"
    /\ trace' = Append(trace, <<"quit", 0>>)
    /\ \/ /\ spc' = IF sexc = "" THEN "returned" ELSE "raised"
          /\ UNCHANGED <<sexc, sout>>
       \/ /\ spc' = "raised"
          /\ sexc' = "WebDriverException"
          /\ sout' = ""
    /\ UNCHANGED <<area_m2, zoom, wait_time, crop, shot>>
    /\ UNCHANGED <<fetchVars, importVars>>

\* The calls explored: areas on both sides of zero and of the clamp, the wait of
\* main() and the default one, with and without cropping.
AreasM2 == {-25, 0, 1, 11148, 40000, 159999, 160000, 160801, 250000}
WaitTimes == {7, 10}

InitShot ==
    /\ FetchIdle
    /\ ImportIdle
    /\ spc = "zoom"
    /\ area_m2 \in AreasM2
    /\ zoom = None
    /\ wait_time \in WaitTimes
    /\ crop \in BOOLEAN
    /\ driver = "None"
    /\ quits = 0
    /\ trace = <<>>
    /\ shot = <<0, 0>>
    /\ sexc = ""
    /\ sout = ""

NextShot ==
    \/ CalculateZoom \/ StartChrome \/ Navigate \/ WaitLoad \/ SendEscape
    \/ PauseAfterEscape \/ SendBracket \/ PauseAfterBracket \/ SaveScreenshot
    \/ Crop \/ Quit

SpecShot == InitShot /\ [][NextShot]_vars

----------------------------------------------------------------------------
\* Properties of the screenshot tool.

ShotEnded == spc \in {"returned", "raised"}
ZoomDone == spc \notin {"idle", "zoom"}

\* C11: once calculate_zoom has run, a positive area has a zoom that is the raw
\* zoom clamped to [15, 20] plus 1, hence within [16, 21]; an area of zero or
\* less has no zoom at all and the call has raised ValueError.
C11_ZoomClamped ==
    ZoomDone =>
        IF area_m2 > 0
          THEN /\ zoom # None
               /\ sexc # "ValueError"
               /\ LET z == zoom[1]
                      raw == RawZoom(area_m2)
                  IN  /\ z >= (ZoomMin + ZoomOffset) * ZoomUnit
                      /\ z <= (ZoomMax + ZoomOffset) * ZoomUnit
                      /\ raw < ZoomMin * ZoomUnit => z = (ZoomMin + ZoomOffset) * ZoomUnit
                      /\ raw > ZoomMax * ZoomUnit => z = (ZoomMax + ZoomOffset) * ZoomUnit
                      /\ (raw >= ZoomMin * ZoomUnit /\ raw <= ZoomMax * ZoomUnit)
                            => z = raw + ZoomOffset * ZoomUnit
          ELSE /\ zoom = None
               /\ spc = "raised"
               /\ sexc = "ValueError"
               /\ trace = <<>>

\* An area so large that the raw zoom is below 15 got zoom 16.
C11_LargeAreaClamped ==
    /\ ZoomDone
    /\ area_m2 > 0
    /\ RawZoom(area_m2) < ZoomMin * ZoomUnit
    /\ zoom = Some((ZoomMin + ZoomOffset) * ZoomUnit)

\* The steps of the try block on the success path, in order.
StepsOf(w, c) ==
    <<  <<"get", 0>>, <<"sleep", w>>, <<"ESCAPE", 0>>, <<"sleep", EscapePause>>,
        <<"]", 0>>, <<"sleep", BracketPause>>, <<"screenshot", 0>> >>
    \o (IF c THEN << <<"crop", 0>> >> ELSE <<>>)

\* trace without the closing quit
BeforeQuit(tr) ==
    IF tr # <<>> /\ tr[Len(tr)] = <<"quit", 0>> THEN SubSeq(tr, 1, Len(tr) - 1) ELSE tr

\* C12: the steps performed are always a beginning of navigate, wait wait_time,
\* ESCAPE, wait, ']', wait, screenshot, crop (when crop is true), followed by the
\* release of the browser at most; a call that returned performed all of them,
\* each once, and released the browser last.
C12_StepOrder ==
    /\ IsPrefix(BeforeQuit(trace), StepsOf(wait_time, crop))
    /\ spc = "returned" => trace = StepsOf(wait_time, crop) \o << <<"quit", 0>> >>
    /\ shot # <<0, 0>> => Contains(trace, <<"ESCAPE", 0>>) /\ Contains(trace, <<"]", 0>>)
    /\ Contains(trace, <<"crop", 0>>) => Contains(trace, <<"screenshot", 0>>)

\* A call with crop that returned a cropped screenshot.
C12_CroppedAndReturned ==
    /\ spc = "returned"
    /\ crop
    /\ shot = CropSize(<<WindowWidth, WindowHeight>>)
    /\ Len(trace) = Len(StepsOf(wait_time, TRUE)) + 1

\* C13: a call that ended after the browser was started has called driver.quit()
\* exactly once (never more at any time); a call in which a step failed ended by
\* raising, not by returning; no step was performed twice.
C13_QuitOnce ==
    /\ quits <= 1
    /\ (ShotEnded /\ driver # "None") => (quits = 1 /\ driver = "quit")
    /\ (ShotEnded /\ driver = "None") => quits = 0
    /\ spc = "returned" => (sexc = "" /\ sout = "output_filename")
    /\ spc = "raised" => (sexc # "" /\ sout = "")
    /\ sexc # "" => spc \in {"finally", "raised"}
    /\ \A i, j \in 1..Len(trace) :
          (i # j /\ trace[i] = trace[j]) => trace[i][1] = "sleep"

\* The crop failed; the browser was released once and the error reached the
\* caller.
C13_CropFailedBrowserReleased ==
    /\ spc = "raised"
    /\ sexc = "OSError"
    /\ quits = 1
    /\ Contains(trace, <<"screenshot", 0>>)

----------------------------------------------------------------------------
\* Properties of the bounding boxes and of the tile grid.

\* C14: the bounding box of the full extent is symmetric around the center in
\* longitude and in latitude, with min < max; its latitude span is the height
\* whatever the latitude, and its longitude span times the cosine of the
\* latitude is the width.
C14_BboxSymmetricCosine ==
    req.kind = "single" =>
        LET x == lon * UnitsPerDegree
            y == lat * UnitsPerDegree
            c == CosOf(lat)
        IN  /\ x - bbox[1] = bbox[3] - x
            /\ y - bbox[2] = bbox[4] - y
            /\ bbox[1] < bbox[3]
            /\ bbox[2] < bbox[4]
            /\ bbox[4] - bbox[2] = height_meters * AngleUnit
            /\ (bbox[3] - bbox[1]) * c[1] = width_meters * AngleUnit * c[2]

\* At 60 degrees south the box of a square area is twice as wide in degrees as
\* it is high.
C14_WideAtHighLatitude ==
    /\ req.kind = "single"
    /\ lat = -60
    /\ width_meters = height_meters
    /\ bbox[3] - bbox[1] = 2 * (bbox[4] - bbox[2])

BoxArea(b) == (b[3] - b[1]) * (b[4] - b[2])
Inside(b, full) == b[1] >= full[1] /\ b[2] >= full[2] /\ b[3] <= full[3] /\ b[4] <= full[4]
Overlap(a, b) == a[1] < b[3] /\ b[1] < a[3] /\ a[2] < b[4] /\ b[2] < a[4]

RECURSIVE SumAreas(_, _)
SumAreas(boxes, n) == IF n = 0 THEN 0 ELSE BoxArea(boxes[n]) + SumAreas(boxes, n - 1)

\* C16: the i-th tile requested is tile ((i - 1) div tiles_x, (i - 1) mod tiles_x);
\* the tile boxes lie inside the full box, no two overlap, and once all are
\* requested their areas add up to the area of the full box; a tile that was
\* received is pasted at (col * 1024, (tiles_y - row - 1) * 1024), inside the
\* canvas, no two tiles at the same offset, and a tile on the southern edge of
\* the full box on the bottom edge of the canvas.
C16_TileGrid ==
    LET tx == TilesFor(width_meters)
        ty == TilesFor(height_meters)
        full == calculate_bbox_from_point(lat, lon, width_meters, height_meters)
        n == Len(tileReqs)
    IN  /\ n <= tx * ty
        /\ Len(tileBoxes) = n
        /\ \A i \in 1..n : tileReqs[i] = <<(i - 1) \div tx, (i - 1) % tx>>
        /\ \A i \in 1..n : Inside(tileBoxes[i], full) /\ BoxArea(tileBoxes[i]) > 0
        /\ \A i, j \in 1..n : i # j => ~Overlap(tileBoxes[i], tileBoxes[j])
        /\ n = tx * ty => SumAreas(tileBoxes, n) = BoxArea(full)
        /\ Cardinality(pasted) = successful
        /\ \A p \in pasted :
              /\ p[1] >= 0 /\ p[1] + PixelsPerTile <= final_size[1]
              /\ p[2] >= 0 /\ p[2] + PixelsPerTile <= final_size[2]
        /\ (req.kind = "tile" /\ TileOk(resp)) =>
              LET t == tileReqs[n]
                  p == <<t[2] * PixelsPerTile, (ty - t[1] - 1) * PixelsPerTile>>
              IN  /\ p \in pasted
                  /\ tileBoxes[n][2] = full[2] => p[2] + PixelsPerTile = final_size[2]
                  /\ tileBoxes[n][4] = full[4] => p[2] = 0

\* All six tiles of a grid of 3 by 2 were requested and received.
C16_WholeGridPasted ==
    /\ TilesFor(width_meters) = 3
    /\ TilesFor(height_meters) = 2
    /\ Len(tileReqs) = 6
    /\ successful = 6
    /\ pc = "done"

----------------------------------------------------------------------------
\* Properties of the fetcher, continued.

AllTilesRequested ==
    Len(tileReqs) = TilesFor(width_meters) * TilesFor(height_meters)
FallbackCalls == Cardinality({i \in 1..Len(attempts) : attempts[i] = "fallback"})

\* C15: when the full-resolution image was blank and every tile of the grid was
\* requested without one success, the call does not end with the tile method's
\* exception: the fallback layer is requested next, once, and the call ends with
\* the fallback's saved path or with the fallback's own exception.
C15_TileFailureCaught ==
    (single = "blank" /\ AllTilesRequested /\ successful = 0) =>
        /\ pc \in {"fallback", "done", "raised"}
        /\ "tiled" \notin saved
        /\ pc = "fallback" => (FallbackCalls = 0 /\ Last(attempts) = "tile")
        /\ pc = "done" =>
              (output = "fallback" /\ FallbackCalls = 1 /\ Last(attempts) = "fallback")
        /\ pc = "raised" =>
              /\ FallbackCalls = 1
              /\ Last(attempts) = "fallback"
              /\ req.kind = "fallback"
              /\ exc = FallbackError(resp)
              /\ exc # "Failed to download any tiles"

\* No tile was received and the fallback was refused by the server as well.
C15_FallbackFailedAfterTiles ==
    /\ single = "blank"
    /\ AllTilesRequested
    /\ successful = 0
    /\ Len(tileReqs) > 1
    /\ pc = "raised"
    /\ exc = "All download methods failed"

\* C17, as stated: once a date is chosen, the requested pixel width and height
\* are at least 1, no ZeroDivisionError is raised and the full-resolution
\* request is issued, for every layer of LAYERS and every positive width and
\* height.
C17_PixelsAtLeastOne ==
    (date_str # None /\ width_meters > 0 /\ height_meters > 0) =>
        /\ target_width_px >= 1
        /\ target_height_px >= 1
        /\ exc # "ZeroDivisionError"
        /\ pc = "fullreq" \/ Contains(attempts, "single")

\* download_landsat_farm_image has made its call of download_landsat_closeup.
Chosen == ~archive.open /\ testing = 0 /\ pc # "choose"

\* The positions in LayerOrder of the Landsat and HLS layers the server holds
\* imagery of.
HeldAt == {i \in 1..Len(landsat_layers) : archive.days[LayerOrder[i]] # {}}
FirstHeld == CHOOSE i \in HeldAt : \A j \in HeldAt : i <= j

\* During the test the layer probed is the next key of LAYERS, a Landsat or HLS
\* one, and the working layers are listed in that order.
C18_ProbesInOrder ==
    /\ (testing > 0 /\ pc = "probe") =>
          /\ layer_key = LayerOrder[testing]
          /\ layer_key \notin {"viirs_noaa20", "modis_terra"}
    /\ \A i \in 1..Len(working_layers) :
          /\ working_layers[i][1] \notin {"viirs_noaa20", "modis_terra"}
          /\ \A j \in 1..Len(working_layers) :
                i < j => \E a, b \in 1..Len(LayerOrder) :
                            /\ a < b
                            /\ LayerOrder[a] = working_layers[i][1]
                            /\ LayerOrder[b] = working_layers[j][1]

\* With a working layer the download uses the first one and the date found for
\* it, and no probe follows; with none it uses 'viirs_noaa20'.
C18_DownloadsFirstWorking ==
    Chosen =>
        IF HeldAt # {}
          THEN /\ layer_key = LayerOrder[FirstHeld]
               /\ force_date # None
               /\ force_date[1] \in archive.days[layer_key]
               /\ pc \notin {"test", "probe"}
               /\ req.kind = "single" =>
                     (req.layers = LAYERS[layer_key].name /\ req.time = force_date[1])
          ELSE /\ layer_key = "viirs_noaa20"
               /\ force_date = None

\* C18, as stated: only the Landsat and HLS layers are probed, in the order of
\* LAYERS; with a working layer the download is made with the first one and its
\* date as force_date, without further probes; with none it is made with
\* 'viirs_noaa20'; and in both cases the call ends by returning the path of a
\* saved image, never by raising.
C18_FirstWorkingLayerSaved ==
    /\ C18_ProbesInOrder
    /\ C18_DownloadsFirstWorking
    /\ Chosen => pc # "raised"
    /\ (Chosen /\ pc = "done") => (output # "" /\ output \in saved)

====
